---- MODULE Spec2Model ----
(***************************************************************************)
(* A model of the 2D particle-physics kernel of IsseW/physics:             *)
(* physics_system (scalar and use_simd paths), ForPairs::par_for_pairs,    *)
(* the link and point constraints, PhysObject and Bounds.                  *)
(*                                                                         *)
(* Floats.  An f32/f64 is modelled as a fixed-point number: the integer v  *)
(* stands for the real v / Scale.  Results are rounded to the nearest      *)
(* representable value, a magnitude above FMax overflows to an infinity,   *)
(* and NaN and the two infinities follow the IEEE-754 rules (NaN compares  *)
(* unequal to everything, x / 0 is an infinity, 0 / 0 and 0 * inf and      *)
(* inf - inf are NaN).  A squared length is kept exactly, in units of      *)
(* 1 / Scale^2, as a float keeps it thanks to its exponent range.          *)
(***************************************************************************)
EXTENDS Integers, Sequences, FiniteSets, TLC

Scale == 10 * 10
FMax == (2 ^ 15) - 1
PInf == FMax + 1
NInf == 0 - PInf
NaN == PInf + 1
SqNaN == 0 - 1
SqInf == 2 * FMax * FMax + 1

Abs(x) == IF x < 0 THEN 0 - x ELSE x

\* a / b rounded to the nearest integer, halves away from zero (b # 0)
RDiv(a, b) ==
    LET q0 == Abs(a) \div Abs(b)
        r  == Abs(a) % Abs(b)
        q  == IF r >= Abs(b) - r THEN q0 + 1 ELSE q0
    IN IF (a < 0) = (b < 0) THEN q ELSE 0 - q

RECURSIVE ISqrtIter(_, _)
ISqrtIter(n, r) ==
    LET r2 == (r + n \div r) \div 2
    IN IF r2 >= r THEN r ELSE ISqrtIter(n, r2)

\* floor of the square root of n >= 0
ISqrt(n) == IF n < 2 THEN n ELSE ISqrtIter(n, (n \div 2) + 1)

\* the square root of n >= 0 rounded to the nearest integer
RSqrt(n) == LET r == ISqrt(n) IN IF n - r * r > r THEN r + 1 ELSE r

IsNaN(a) == a = NaN
IsInf(a) == a = PInf \/ a = NInf
IsFinite(a) == ~IsNaN(a) /\ ~IsInf(a)
Clamp(v) == IF v > FMax THEN PInf ELSE IF v < 0 - FMax THEN NInf ELSE v

FNeg(a) == IF IsNaN(a) THEN NaN ELSE 0 - a

FAdd(a, b) ==
    IF IsNaN(a) \/ IsNaN(b) THEN NaN
    ELSE IF IsInf(a) THEN (IF IsInf(b) /\ a # b THEN NaN ELSE a)
    ELSE IF IsInf(b) THEN b
    ELSE Clamp(a + b)

FSub(a, b) == FAdd(a, FNeg(b))

FMul(a, b) ==
    IF IsNaN(a) \/ IsNaN(b) THEN NaN
    ELSE IF IsInf(a) \/ IsInf(b)
         THEN IF a = 0 \/ b = 0 THEN NaN
              ELSE IF (a < 0) = (b < 0) THEN PInf ELSE NInf
    ELSE Clamp(RDiv(a * b, Scale))

FDiv(a, b) ==
    IF IsNaN(a) \/ IsNaN(b) THEN NaN
    ELSE IF IsInf(a)
         THEN IF IsInf(b) THEN NaN
              ELSE IF (a < 0) = (b < 0) THEN PInf ELSE NInf
    ELSE IF IsInf(b) THEN 0
    ELSE IF b = 0
         THEN IF a = 0 THEN NaN ELSE IF a < 0 THEN NInf ELSE PInf
    ELSE Clamp(RDiv(a * Scale, b))

FEq(a, b) == ~IsNaN(a) /\ ~IsNaN(b) /\ a = b
FLt(a, b) == ~IsNaN(a) /\ ~IsNaN(b) /\ a < b
FGt(a, b) == FLt(b, a)

\* f32::max / f32::min: the other operand when one is NaN
FMaxOf(a, b) == IF IsNaN(a) THEN b ELSE IF IsNaN(b) THEN a ELSE IF a < b THEN b ELSE a
FMinOf(a, b) == IF IsNaN(a) THEN b ELSE IF IsNaN(b) THEN a ELSE IF b < a THEN b ELSE a

\* x * x as an exact squared quantity
SqOf(a) == IF IsNaN(a) THEN SqNaN ELSE IF IsInf(a) THEN SqInf ELSE a * a
SqLt(p, q) == p # SqNaN /\ q # SqNaN /\ p < q
SqSqrt(q) == IF q = SqNaN THEN NaN ELSE IF q = SqInf THEN PInf ELSE Clamp(RSqrt(q))

\* a / q for a float a and a squared quantity q
FDivSq(a, q) ==
    IF IsNaN(a) \/ q = SqNaN THEN NaN
    ELSE IF IsInf(a) THEN (IF q = SqInf THEN NaN ELSE a)
    ELSE IF q = SqInf THEN 0
    ELSE IF q = 0 THEN (IF a = 0 THEN NaN ELSE IF a < 0 THEN NInf ELSE PInf)
    ELSE Clamp(RDiv(a * Scale * Scale, q))

(***************************************************************************)
(* Vec2 / DVec2 (glam)                                                     *)
(***************************************************************************)
ZERO == <<0, 0>>
VAdd(u, v) == <<FAdd(u[1], v[1]), FAdd(u[2], v[2])>>
VSub(u, v) == <<FSub(u[1], v[1]), FSub(u[2], v[2])>>
VNeg(u) == <<FNeg(u[1]), FNeg(u[2])>>
VScale(u, s) == <<FMul(u[1], s), FMul(u[2], s)>>
VDivS(u, s) == <<FDiv(u[1], s), FDiv(u[2], s)>>
VEq(u, v) == FEq(u[1], v[1]) /\ FEq(u[2], v[2])
VIsFinite(u) == IsFinite(u[1]) /\ IsFinite(u[2])
VIsNaN(u) == IsNaN(u[1]) \/ IsNaN(u[2])
VClamp(u, lo, hi) ==
    <<FMinOf(FMaxOf(u[1], lo[1]), hi[1]), FMinOf(FMaxOf(u[2], lo[2]), hi[2])>>

length_squared(u) ==
    IF VIsNaN(u) THEN SqNaN
    ELSE IF ~VIsFinite(u) THEN SqInf
    ELSE u[1] * u[1] + u[2] * u[2]

length(u) == SqSqrt(length_squared(u))

distance_squared(u, v) == length_squared(VSub(u, v))

\* u / d where d is the length of u: the division of a vector by its own
\* length keeps a float's relative precision however short the vector is, so
\* the vector is first scaled up to the top of the representable range.
Normalized(u, d) ==
    IF ~VIsFinite(u) \/ ~IsFinite(d) \/ d = 0 THEN VDivS(u, d)
    ELSE LET m == IF Abs(u[1]) > Abs(u[2]) THEN Abs(u[1]) ELSE Abs(u[2])
             k == IF m = 0 THEN 1 ELSE FMax \div m
             x == u[1] * k
             y == u[2] * k
             l == RSqrt(x * x + y * y)
         IN IF k <= 1 \/ l = 0 THEN VDivS(u, d)
            ELSE <<RDiv(x * Scale, l), RDiv(y * Scale, l)>>

(***************************************************************************)
(* PhysObject (physics/object.rs)                                          *)
(***************************************************************************)
PhysObject(pos, pos_old, radius, mass) ==
    [pos |-> pos, pos_old |-> pos_old, acceleration |-> ZERO,
     radius |-> radius, mass |-> mass]

has_changed(o) == ~VEq(o.pos, o.pos_old)

\* (mutant) a non-finite position always falls back to the origin
PhysObject_update_position_origin(o, dt) ==
    LET pos1 == IF ~VIsFinite(o.pos) THEN ZERO ELSE o.pos
        velocity == IF ~VIsFinite(o.pos) THEN ZERO ELSE VSub(o.pos, o.pos_old)
    IN [o EXCEPT !.pos_old = pos1,
                 !.pos = VAdd(pos1, VAdd(velocity,
                                         VScale(VScale(o.acceleration, dt), dt))),
                 !.acceleration = ZERO]

\* (mutant) the acceleration survives the integration
PhysObject_update_position_keep_acc(o, dt) ==
    LET pos1 == IF ~VIsFinite(o.pos)
                THEN (IF VIsFinite(o.pos_old) THEN o.pos_old ELSE ZERO)
                ELSE o.pos
        velocity == IF ~VIsFinite(o.pos) THEN ZERO ELSE VSub(o.pos, o.pos_old)
    IN [o EXCEPT !.pos_old = pos1,
                 !.pos = VAdd(pos1, VAdd(velocity,
                                         VScale(VScale(o.acceleration, dt), dt)))]

PhysObject_update_position(o, dt) ==
    LET pos1 == IF ~VIsFinite(o.pos)
                THEN (IF VIsFinite(o.pos_old) THEN o.pos_old ELSE ZERO)
                ELSE o.pos
        velocity == IF ~VIsFinite(o.pos) THEN ZERO ELSE VSub(o.pos, o.pos_old)
    IN [o EXCEPT !.pos_old = pos1,
                 !.pos = VAdd(pos1, VAdd(velocity,
                                         VScale(VScale(o.acceleration, dt), dt))),
                 !.acceleration = ZERO]

accelerate(o, acc) == [o EXCEPT !.acceleration = VAdd(o.acceleration, acc)]

set_velocity(o, vel) == [o EXCEPT !.pos_old = VSub(o.pos, vel)]

(***************************************************************************)
(* Gravity and Bounds (physics/mod.rs, main.rs)                            *)
(***************************************************************************)
GravityNone == [kind |-> "None"]
GravityDir(dir) == [kind |-> "Dir", dir |-> dir]
GravityTowards(point, strength) ==
    [kind |-> "Towards", point |-> point, strength |-> strength]
GravityVectorField(funcs) == [kind |-> "VectorField", funcs |-> funcs]

towards(point, strength, pos) ==
    LET axis == VSub(point, pos)
        sqr_len == length_squared(axis)
        len == SqSqrt(sqr_len)
    IN VScale(axis, FDiv(FDivSq(strength, sqr_len), len))

\* the compiled field functions are opaque to the kernel; "rot" stands for
\* the pair x |-> -y, y |-> x
CFunc(funcs, pos) ==
    IF funcs = "rot" THEN <<FNeg(pos[2]), pos[1]>> ELSE ZERO

\* Gravity::acceleration of physics/mod.rs
Gravity_acceleration(g, pos) ==
    CASE g.kind = "Dir" -> g.dir
      [] g.kind = "VectorField" ->
            IF g.funcs # "none" THEN CFunc(g.funcs, pos) ELSE ZERO
      [] OTHER -> ZERO

\* Gravity::acceleration of main.rs
Gravity_acceleration_main(g, pos) ==
    CASE g.kind = "Dir" -> g.dir
      [] g.kind = "Towards" -> towards(g.point, g.strength, pos)
      [] OTHER -> ZERO

BoundsNone == [kind |-> "None"]
BoundsCircle(r) == [kind |-> "Circle", r |-> r]
BoundsRect(min, max) == [kind |-> "Rect", min |-> min, max |-> max]

\* (mutant) the particle is brought to rest where the bound puts it
Bounds_update_position_rest(b, obj) ==
    CASE b.kind = "Circle" ->
            LET l == length(obj.pos)
                lim == FSub(b.r, obj.radius)
                p == IF FGt(l, lim) THEN VScale(Normalized(obj.pos, l), lim)
                     ELSE obj.pos
            IN [obj EXCEPT !.pos = p, !.pos_old = p]
      [] b.kind = "Rect" ->
            LET r == <<obj.radius, obj.radius>>
                p == VClamp(obj.pos, VAdd(b.min, r), VSub(b.max, r))
            IN [obj EXCEPT !.pos = p, !.pos_old = p]
      [] OTHER -> obj

Bounds_update_position(b, obj) ==
    CASE b.kind = "Circle" ->
            LET l == length(obj.pos)
                lim == FSub(b.r, obj.radius)
            IN IF FGt(l, lim)
               THEN [obj EXCEPT !.pos = VScale(Normalized(obj.pos, l), lim)]
               ELSE obj
      [] b.kind = "Rect" ->
            LET r == <<obj.radius, obj.radius>>
            IN [obj EXCEPT !.pos = VClamp(obj.pos, VAdd(b.min, r), VSub(b.max, r))]
      [] OTHER -> obj

(***************************************************************************)
(* Constraints (physics/constraints.rs)                                    *)
(***************************************************************************)
EPSILON == 1

LinkConstraint(a, b, dist, snap) == [a |-> a, b |-> b, dist |-> dist, snap |-> snap]
PointConstraint(a, point, dist) == [a |-> a, point |-> point, dist |-> dist]

\* (mutant) each particle takes the share of its own mass
LinkConstraint_apply_own_share(self, get) ==
    LET axis0 == VSub(get[self.a].pos, get[self.b].pos)
        axis == IF VEq(axis0, ZERO) THEN <<EPSILON, EPSILON>> ELSE axis0
        dist == length(axis)
        n == Normalized(axis, dist)
        delta == FSub(self.dist, dist)
        a_m == get[self.a].mass
        b_m == get[self.b].mass
        get1 == [get EXCEPT ![self.a].pos =
                    VAdd(get[self.a].pos,
                         VScale(n, FDiv(FMul(delta, a_m), FAdd(a_m, b_m))))]
    IN [get1 EXCEPT ![self.b].pos =
            VSub(get1[self.b].pos,
                 VScale(n, FDiv(FMul(delta, b_m), FAdd(a_m, b_m))))]

LinkConstraint_apply(self, get) ==
    LET axis0 == VSub(get[self.a].pos, get[self.b].pos)
        axis == IF VEq(axis0, ZERO) THEN <<EPSILON, EPSILON>> ELSE axis0
        dist == length(axis)
        n == Normalized(axis, dist)
        delta == FSub(self.dist, dist)
        a_m == get[self.a].mass
        b_m == get[self.b].mass
        get1 == [get EXCEPT ![self.a].pos =
                    VAdd(get[self.a].pos,
                         VScale(n, FDiv(FMul(delta, b_m), FAdd(a_m, b_m))))]
    IN [get1 EXCEPT ![self.b].pos =
            VSub(get1[self.b].pos,
                 VScale(n, FDiv(FMul(delta, a_m), FAdd(a_m, b_m))))]

\* the entity -> index map of the step: entity e is item e of the particle
\* list when it is alive, and is unknown otherwise
LinkConstraint_try_map(self, count) ==
    self.a \in 1..count /\ self.b \in 1..count

LinkConstraint_should_stay(self, get) ==
    SqLt(distance_squared(get[self.a].pos, get[self.b].pos), SqOf(self.snap))

PointConstraint_apply(self, get) ==
    LET axis == VSub(get[self.a].pos, self.point)
        dist == length(axis)
        n == Normalized(axis, dist)
        delta == FSub(self.dist, dist)
        p == VAdd(self.point, VScale(n, delta))
    IN [get EXCEPT ![self.a].pos = p,
                   ![self.a].pos_old = p,
                   ![self.a].acceleration = ZERO]

PointConstraint_try_map(self, count) == self.a \in 1..count


\* the closures handed to par_for_pairs by the collision stage
\* (mutant) each particle takes the share of its own mass
collision_map_own_share(a, b) ==
    LET axis0 == VSub(a.pos, b.pos)
        collision_axis == IF VEq(axis0, ZERO) THEN <<EPSILON, EPSILON>> ELSE axis0
        combined == FAdd(a.radius, b.radius)
        dist_sqr == length_squared(collision_axis)
    IN IF SqLt(dist_sqr, SqOf(combined))
       THEN LET dist == SqSqrt(dist_sqr)
                n == Normalized(collision_axis, dist)
                delta == FSub(combined, dist)
                m == FAdd(a.mass, b.mass)
            IN << VScale(n, FMul(FDiv(a.mass, m), delta)),
                  VScale(n, FNeg(FMul(FDiv(b.mass, m), delta))) >>
       ELSE <<>>

collision_map(a, b) ==
    LET axis0 == VSub(a.pos, b.pos)
        collision_axis == IF VEq(axis0, ZERO) THEN <<EPSILON, EPSILON>> ELSE axis0
        combined == FAdd(a.radius, b.radius)
        dist_sqr == length_squared(collision_axis)
    IN IF SqLt(dist_sqr, SqOf(combined))
       THEN LET dist == SqSqrt(dist_sqr)
                n == Normalized(collision_axis, dist)
                delta == FSub(combined, dist)
                m == FAdd(a.mass, b.mass)
            IN << VScale(n, FMul(FDiv(b.mass, m), delta)),
                  VScale(n, FNeg(FMul(FDiv(a.mass, m), delta))) >>
       ELSE <<>>

collision_apply(o, t) == [o EXCEPT !.pos = VAdd(o.pos, t)]

\* a closure value is the name of its body: map(&self[i], b) and
\* apply(&mut self[i], a)
call_map(map, a, b) ==
    CASE map = "collision" -> collision_map(a, b)
      [] OTHER -> <<>>

call_apply(apply, o, t) ==
    CASE apply = "collision" -> collision_apply(o, t)
      [] OTHER -> o

(***************************************************************************)
(* ForPairs::par_for_pairs (for_pairs.rs).  An Option<(T, T)> is the empty *)
(* sequence for None and <<a, b>> for Some((a, b)).                        *)
(***************************************************************************)
RECURSIVE PairsFrom(_, _, _)
PairsFrom(i, j, n) ==
    IF i >= n THEN <<>>
    ELSE IF j > n THEN PairsFrom(i + 1, i + 2, n)
    ELSE <<<<i, j>>>> \o PairsFrom(i, j + 1, n)

\* the pairs (i, i + 1 + j) in the order the rows are collected and flattened
Pairs(n) == PairsFrom(1, 2, n)

\* row i of v: ((i, a), (i + 1 + j, b)) for every later item where map is Some
Row(items, i, map) ==
    LET js == SelectSeq(Pairs(Len(items)),
                        LAMBDA p : p[1] = i /\ call_map(map, items[p[1]], items[p[2]]) # <<>>)
    IN [k \in 1..Len(js) |->
            LET m == call_map(map, items[js[k][1]], items[js[k][2]])
            IN <<<<js[k][1], m[1]>>, <<js[k][2], m[2]>>>>]

RECURSIVE Flatten(_)
Flatten(rows) == IF rows = <<>> THEN <<>> ELSE Head(rows) \o Flatten(Tail(rows))

\* one step of the for_each of the apply pass
ApplyPair(items, r, apply) ==
    LET items1 == [items EXCEPT ![r[1][1]] = call_apply(apply, items[r[1][1]], r[1][2])]
    IN [items1 EXCEPT ![r[2][1]] = call_apply(apply, items1[r[2][1]], r[2][2])]

ApplyAll(items, rs, apply) ==
    LET f[k \in 0..Len(rs)] ==
            IF k = 0 THEN items ELSE ApplyPair(f[k - 1], rs[k], apply)
    IN f[Len(rs)]

par_for_pairs(self, map, apply) ==
    LET v == [i \in 1..Len(self) |-> Row(self, i, map)]
    IN ApplyAll(self, Flatten(v), apply)

(***************************************************************************)
(* physics_system, scalar path (physics/mod.rs 632-813)                    *)
(***************************************************************************)
\* the term particle b adds to the N-body acceleration of particle a
nbody_term(a, b, constant) ==
    LET axis == VSub(b.pos, a.pos)
        sqr_len == length_squared(axis)
    IN IF sqr_len = 0 THEN ZERO
       ELSE VScale(axis, FDiv(FDivSq(FMul(b.mass, constant), sqr_len),
                              SqSqrt(sqr_len)))

\* objects.iter().map(..).reduce(|a, b| a + b).unwrap_or_default()
nbody_sum(a, objects, constant) ==
    LET f[k \in 0..Len(objects)] ==
            IF k = 0 THEN ZERO
            ELSE IF k = 1 THEN nbody_term(a, objects[1], constant)
            ELSE VAdd(f[k - 1], nbody_term(a, objects[k], constant))
    IN f[Len(objects)]

\* the body of the par_iter_mut().for_each closure: what one worker does to
\* its own particle a, reading the clone `objects`
nbody_worker(a, objects, st, dt) ==
    LET v == nbody_sum(a, objects, st.gravitational_constant)
    IN IF st.gravity_set_velocity THEN set_velocity(a, VScale(v, dt))
       ELSE accelerate(a, v)

field_gravity(obj, st, dt) ==
    LET v == Gravity_acceleration(st.gravity, obj.pos)
    IN IF st.gravity_set_velocity THEN set_velocity(obj, VScale(v, dt))
       ELSE accelerate(obj, v)

nbody_active(st) == Abs(st.gravitational_constant) > EPSILON

\* let objects = objs.clone(); objs.par_iter_mut().for_each(..)
nbody_stage(objs, st, dt) ==
    LET objects == objs
    IN IF nbody_active(st)
       THEN [i \in 1..Len(objs) |-> nbody_worker(objs[i], objects, st, dt)]
       ELSE objs

field_stage(objs, st, dt) ==
    IF st.gravity.kind # "None"
    THEN [i \in 1..Len(objs) |-> field_gravity(objs[i], st, dt)]
    ELSE objs

\* (mutant) the field term is applied before the N-body term
gravity_stage_field_first(objs, st, dt) ==
    nbody_stage(field_stage(objs, st, dt), st, dt)

gravity_stage(objs, st, dt) == field_stage(nbody_stage(objs, st, dt), st, dt)

bounds_stage(objs, st) ==
    IF st.bounds.kind # "None"
    THEN [i \in 1..Len(objs) |-> Bounds_update_position(st.bounds, objs[i])]
    ELSE objs

constraints_stage(objs, links, points) ==
    LET f[k \in 0..Len(links)] ==
            IF k = 0 THEN objs ELSE LinkConstraint_apply(links[k], f[k - 1])
        g[k \in 0..Len(points)] ==
            IF k = 0 THEN f[Len(links)] ELSE PointConstraint_apply(points[k], g[k - 1])
    IN g[Len(points)]

collisions_stage(objs, st) ==
    IF st.collisions THEN par_for_pairs(objs, "collision", "collision")
    ELSE objs

update_stage(objs, dt) ==
    [i \in 1..Len(objs) |-> PhysObject_update_position(objs[i], dt)]

(***************************************************************************)
(* physics_system, use_simd path (physics/mod.rs 196-630).  The eight      *)
(* parallel arrays of PhysObjects are one sequence of records, element k   *)
(* holding x[k], y[k], oldx[k], ... ; it has count + NUM_ELEMS - 1         *)
(* elements.  A 4-wide load at offset i reads elements i .. i + 3.         *)
(***************************************************************************)
NUM_ELEMS == 4

padding == [pos |-> ZERO, pos_old |-> ZERO, acceleration |-> ZERO,
            radius |-> 0, mass |-> 0]

\* (mutant) the copy lands on the element it was read from
wrap_step_self(v, back_len, i) == [v EXCEPT ![i + 1] = v[i + 1]]

\* v[l - back_len + i] = v[i], on every array
wrap_step(v, back_len, i) == [v EXCEPT ![Len(v) - back_len + i + 1] = v[i + 1]]

wrap_back(v, count) ==
    LET c == Len(v) - count
        f[k \in 0..c] ==
            IF k = 0 THEN v ELSE wrap_step(f[k - 1], c, k - 1)
    IN f[c]

\* (mutant) one chunk more than count / num rounded down
chunked_plus(count) == (count \div NUM_ELEMS + 1) * NUM_ELEMS

\* the number of elements the take((count + num - 1) / num) chunks cover
chunked(count) == ((count + NUM_ELEMS - 1) \div NUM_ELEMS) * NUM_ELEMS

\* (mutant) the factor is not masked by sqr_len > 0
simd_nbody_term_unmasked(pos, src, constant) ==
    LET axis == VSub(src.pos, pos)
        sqr_len == length_squared(axis)
        len == SqSqrt(sqr_len)
    IN VScale(axis, FMul(constant, FDiv(FDivSq(src.mass, sqr_len), len)))

\* one lane of one iteration of `for obj in &objs_clone`
simd_nbody_term(pos, src, constant) ==
    LET axis == VSub(src.pos, pos)
        sqr_len == length_squared(axis)
        mask == SqLt(0, sqr_len)
        len == SqSqrt(sqr_len)
        c == IF mask THEN FMul(constant, FDiv(FDivSq(src.mass, sqr_len), len))
             ELSE 0
    IN VScale(axis, c)

\* lane l = (t - 1) % 4 of the chunk holding element t: objs_clone[i] is the
\* 4-wide load at offset i, whose lane l is element i + l
simd_nbody_lane(t, w, count, constant) ==
    LET l == (t - 1) % NUM_ELEMS
        f[i \in 0..count] ==
            IF i = 0 THEN w[t].acceleration
            ELSE VAdd(f[i - 1], simd_nbody_term(w[t].pos, w[i + l], constant))
    IN f[count]

simd_nbody(v, count, st) ==
    LET w == wrap_back(v, count)
    IN [t \in 1..Len(w) |->
            IF t <= chunked(count)
            THEN [w[t] EXCEPT !.acceleration =
                        simd_nbody_lane(t, w, count, st.gravitational_constant)]
            ELSE w[t]]

simd_field(v, count, st, dt) ==
    [t \in 1..Len(v) |->
        IF t <= chunked(count) THEN field_gravity(v[t], st, dt) ELSE v[t]]

simd_gravity_stage(v, count, st, dt) ==
    LET v1 == IF nbody_active(st) THEN simd_nbody(v, count, st) ELSE v
    IN IF st.gravity.kind # "None" THEN simd_field(v1, count, st, dt) ELSE v1

simd_update_lane(o, dt) ==
    LET dt2 == FMul(dt, dt)
        vel == VSub(o.pos, o.pos_old)
        a == VScale(o.acceleration, dt2)
    IN [o EXCEPT !.pos = VAdd(o.pos, VAdd(vel, a)),
                 !.pos_old = o.pos,
                 !.acceleration = ZERO]

simd_update_stage(v, count, dt) ==
    [t \in 1..Len(v) |->
        IF t <= chunked(count) THEN simd_update_lane(v[t], dt) ELSE v[t]]

(***************************************************************************)
(* One invocation of physics_system as a state machine.                    *)
(*   world      the Object / ObjectPos components, entity e = index e      *)
(*   linkQ, pointQ  the constraint queries (they may name entity count+1,  *)
(*              which does not exist)                                      *)
(*   despawned  the commands.entity(e).despawn() issued so far             *)
(*   trace      the stages run so far (history)                            *)
(***************************************************************************)
VARIABLES world, world0, linkQ, pointQ, settings, delta,
          objs, links, points, despawned, pc, sub, trace,
          objs0, objects, pending, rowJ, v, applied, calls, opArg

vars == <<world, world0, linkQ, pointQ, settings, delta,
          objs, links, points, despawned, pc, sub, trace,
          objs0, objects, pending, rowJ, v, applied, calls, opArg>>

\* the variables of the finer-grained machines below, which one invocation
\* of physics_system leaves alone
aux == <<objs0, objects, pending, rowJ, v, applied, calls, opArg>>

dt_of(st, d) == FDiv(d, st.sub_steps * Scale)

extract(w) ==
    [i \in 1..Len(w) |-> PhysObject(w[i].current, w[i].old, w[i].radius, w[i].mass)]

simd_extract(w) ==
    extract(w) \o [k \in 1..(NUM_ELEMS - 1) |-> padding]

link_valid(l, o, count) ==
    LinkConstraint_try_map(l, count) /\ LinkConstraint_should_stay(l, o)

validate_links(q, o, count) == SelectSeq(q, LAMBDA l : link_valid(l, o, count))

validate_points(q, count) ==
    SelectSeq(q, LAMBDA c : PointConstraint_try_map(c, count))

\* ObjectPos::apply under the has_changed filter, and the despawn of a NaN
insert(w, o) ==
    [i \in 1..Len(w) |->
        IF has_changed(o[i])
        THEN [w[i] EXCEPT !.current = o[i].pos, !.old = o[i].pos_old]
        ELSE w[i]]

insert_despawn(w, o) ==
    {<<"obj", i>> : i \in {j \in 1..Len(w) : has_changed(o[j]) /\ VIsNaN(o[j].pos)}}

Extract ==
    /\ pc = "extract" /\ ~settings.use_simd
    /\ objs' = extract(world)
    /\ pc' = "links"
    /\ trace' = Append(trace, "extract")
    /\ UNCHANGED <<world, world0, linkQ, pointQ, settings, delta,
                   links, points, despawned, sub, aux>>

SimdExtract ==
    /\ pc = "extract" /\ settings.use_simd
    /\ objs' = simd_extract(world)
    /\ pc' = "links"
    /\ trace' = Append(trace, "extract")
    /\ UNCHANGED <<world, world0, linkQ, pointQ, settings, delta,
                   links, points, despawned, sub, aux>>

ValidateLinks ==
    /\ pc = "links"
    /\ links' = validate_links(linkQ, objs, Len(world))
    /\ despawned' = despawned \cup
          {<<"link", k>> : k \in {j \in 1..Len(linkQ) :
                                    ~link_valid(linkQ[j], objs, Len(world))}}
    /\ pc' = "points"
    /\ UNCHANGED <<world, world0, linkQ, pointQ, settings, delta,
                   objs, points, sub, trace, aux>>

ValidatePoints ==
    /\ pc = "points"
    /\ points' = validate_points(pointQ, Len(world))
    /\ despawned' = despawned \cup
          {<<"point", k>> : k \in {j \in 1..Len(pointQ) :
                                    ~PointConstraint_try_map(pointQ[j], Len(world))}}
    /\ pc' = "gravity"
    /\ trace' = Append(trace, "validate")
    /\ UNCHANGED <<world, world0, linkQ, pointQ, settings, delta,
                   objs, links, sub, aux>>

Stage(from, to, newObjs) ==
    /\ pc = from
    /\ objs' = newObjs
    /\ pc' = to
    /\ trace' = Append(trace, from)
    /\ UNCHANGED <<world, world0, linkQ, pointQ, settings, delta,
                   links, points, despawned, aux>>

\* (mutant) the loop runs 0..=sub_steps
next_substep_inclusive ==
    IF sub + 1 <= settings.sub_steps THEN "gravity" ELSE "insert"

\* the end of one iteration of `for _ in 0..sub_steps`
next_substep == IF sub + 1 < settings.sub_steps THEN "gravity" ELSE "insert"

Gravity ==
    /\ ~settings.use_simd
    /\ Stage("gravity", "bounds", gravity_stage(objs, settings, dt_of(settings, delta)))
    /\ UNCHANGED sub

BoundsStage ==
    /\ Stage("bounds", "constraints", bounds_stage(objs, settings))
    /\ UNCHANGED sub

Constraints ==
    /\ Stage("constraints", "collisions", constraints_stage(objs, links, points))
    /\ UNCHANGED sub

Collisions ==
    /\ Stage("collisions", "update", collisions_stage(objs, settings))
    /\ UNCHANGED sub

UpdatePositions ==
    /\ ~settings.use_simd
    /\ Stage("update", next_substep, update_stage(objs, dt_of(settings, delta)))
    /\ sub' = sub + 1

SimdGravity ==
    /\ settings.use_simd
    /\ Stage("gravity", "update",
             simd_gravity_stage(objs, Len(world), settings, dt_of(settings, delta)))
    /\ UNCHANGED sub

SimdUpdatePositions ==
    /\ settings.use_simd
    /\ Stage("update", next_substep,
             simd_update_stage(objs, Len(world), dt_of(settings, delta)))
    /\ sub' = sub + 1

Insert ==
    /\ pc = "insert"
    /\ world' = insert(world, objs)
    /\ despawned' = despawned \cup insert_despawn(world, objs)
    /\ pc' = "done"
    /\ trace' = Append(trace, "insert")
    /\ UNCHANGED <<world0, linkQ, pointQ, settings, delta, objs, links, points,
                   sub, aux>>

(***************************************************************************)
(* The inputs of a step.  Coordinates are in units of 1 / Scale.           *)
(***************************************************************************)
MaxN == 2
MaxSubSteps == 2

PosSet == {<<0, 0>>, <<150, 0>>, <<0, 1500>>, <<0, 2000>>}

\* entity i at p: odd entities are at rest, even ones move; the mass is
\* radius^2 * density * PI for a density that makes it 1 or 3
Particle(i, p) ==
    [current |-> p,
     old |-> IF i % 2 = 0 THEN VSub(p, <<10, 0>>) ELSE p,
     radius |-> 100,
     mass |-> IF i % 2 = 0 THEN 300 ELSE 100]

\* every placement of up to MaxN entities, and one entity that moves fast
\* close to the largest finite coordinate
Worlds ==
    UNION {{[i \in 1..n |-> Particle(i, f[i])] : f \in [1..n -> PosSet]} : n \in 0..MaxN}
    \cup {<<[current |-> <<30000, 0>>, old |-> <<0 - 30000, 0>>,
             radius |-> 100, mass |-> 100]>>}

GravitySet == {GravityNone, GravityDir(<<0, 0 - 100>>), GravityVectorField("rot")}
BoundsSet == {BoundsNone, BoundsCircle(1000),
              BoundsRect(<<0 - 500, 0 - 500>>, <<500, 500>>)}

\* <<gravity, gravitational_constant, gravity_set_velocity>>
GravityModes ==
    {<<g, 0, FALSE>> : g \in GravitySet}
    \cup {<<GravityNone, 100, b>> : b \in BOOLEAN}
    \cup {<<GravityDir(<<0, 0 - 100>>), 100, b>> : b \in BOOLEAN}

SettingsSet ==
    {[gravity |-> m[1],
      gravity_set_velocity |-> m[3],
      bounds |-> b,
      gravitational_constant |-> m[2],
      sub_steps |-> s,
      collisions |-> c,
      use_simd |-> u] :
        m \in GravityModes, b \in BoundsSet, s \in 1..MaxSubSteps,
        c \in BOOLEAN, u \in BOOLEAN}

\* the links and points a world of n entities can carry: a link of rest
\* length 10 and snap distance 15 between entities 1 and 2, a link to an
\* entity that is gone, a link from entity 1 to itself; a point constraint
\* on a gone entity and one pinning entity 1 at distance 10 of the origin
LinkSets(n) ==
    {<<>>,
     <<LinkConstraint(1, 2, 1000, 1500)>>,
     <<LinkConstraint(1, n + 1, 1000, 1500), LinkConstraint(1, 1, 1000, 1500)>>}

PointSets(n) ==
    {<<>>,
     <<PointConstraint(n + 1, ZERO, 1000), PointConstraint(1, ZERO, 1000)>>}

\* the constraint queries of a step: no constraints, one link, points alone,
\* and links and points together (each with an entity that has despawned)
ConstraintSets(n) ==
    {c \in LinkSets(n) \X PointSets(n) :
        /\ Len(c[1]) = 1 => c[2] = <<>>
        /\ Len(c[1]) = 2 => c[2] # <<>>}

AuxIdle ==
    /\ objs0 = <<>> /\ objects = <<>> /\ pending = {}
    /\ rowJ = <<>> /\ v = <<>> /\ applied = 0 /\ calls = <<>> /\ opArg = <<>>

Init ==
    /\ world \in Worlds
    /\ world0 = world
    /\ \E c \in ConstraintSets(Len(world)) : linkQ = c[1] /\ pointQ = c[2]
    /\ settings \in SettingsSet
    /\ delta = Scale
    /\ objs = <<>> /\ links = <<>> /\ points = <<>>
    /\ despawned = {}
    /\ pc = "extract" /\ sub = 0 /\ trace = <<>>
    /\ AuxIdle

Next ==
    \/ Extract \/ SimdExtract \/ ValidateLinks \/ ValidatePoints
    \/ Gravity \/ BoundsStage \/ Constraints \/ Collisions \/ UpdatePositions
    \/ SimdGravity \/ SimdUpdatePositions
    \/ Insert

Spec == Init /\ [][Next]_vars

(***************************************************************************)
(* The whole scalar step as a function, from the stages above.             *)
(***************************************************************************)
substep(o, ls, ps, st, dt) ==
    update_stage(
        collisions_stage(
            constraints_stage(bounds_stage(gravity_stage(o, st, dt), st), ls, ps),
            st),
        dt)

scalar_objs(w, lq, pq, st, d) ==
    LET o0 == extract(w)
        ls == validate_links(lq, o0, Len(w))
        ps == validate_points(pq, Len(w))
        f[k \in 0..st.sub_steps] ==
            IF k = 0 THEN o0 ELSE substep(f[k - 1], ls, ps, st, dt_of(st, d))
    IN f[st.sub_steps]

(***************************************************************************)
(* par_for_pairs, one map call at a time.  The closure of row i runs on    *)
(* any rayon worker, in any interleaving with the other rows; collect()    *)
(* joins them and keeps the rows in index order; the calling thread then   *)
(* applies the flattened results.                                          *)
(*   rowJ[i]   the next item the closure of row i hands to map (i + 1 at   *)
(*             first, beyond the last item when the row is finished)       *)
(*   v[i]      the results row i has collected                             *)
(*   applied   how many entries of the flattened v have been applied       *)
(*   calls     how often map has been called on each pair (history)        *)
(*   trace     the apply calls made, in order (history)                    *)
(*   objs0     the items when par_for_pairs was called (history)           *)
(***************************************************************************)
MaxItems == 5

\* item k sits 5 apart from its neighbours, or (k >= 3) at 1.5 of the home
\* of item k - 2, or (k = 2) exactly on item 1
ItemHome(k) == <<500 * k, 0>>
ItemPosSet(k) ==
    {ItemHome(k)} \cup (IF k >= 3 THEN {VAdd(ItemHome(k - 2), <<150, 0>>)}
                        ELSE IF k = 2 THEN {ItemHome(1)} ELSE {})

ItemLists ==
    UNION {{[k \in 1..n |-> PhysObject(f[k], f[k], 100, IF k % 2 = 0 THEN 300 ELSE 100)] :
                f \in {g \in [1..n -> UNION {ItemPosSet(k) : k \in 1..n}] :
                            \A k \in 1..n : g[k] \in ItemPosSet(k)}} :
           n \in 0..MaxItems}

\* (mutant) the row starts at self[i..]
first_other_self(i) == i

\* self[i + 1..]: the first item row i pairs item i with
first_other(i) == i + 1

\* (mutant) the apply pass does not wait for the rows
rows_uncollected(rJ, n) == TRUE

\* collect(): every row has run to its end
rows_collected(rJ, n) == \A i \in 1..n : rJ[i] > n

\* (mutant) the rows are applied from the last one back
flat_map_rev(rows) ==
    Flatten([i \in 1..Len(rows) |-> rows[Len(rows) + 1 - i]])

\* the order in which the rows reach the apply pass
flat_map(rows) == Flatten(rows)

StepIdle ==
    /\ world = <<>> /\ world0 = <<>> /\ linkQ = <<>> /\ pointQ = <<>>
    /\ links = <<>> /\ points = <<>> /\ despawned = {} /\ sub = 0

PairsInit ==
    /\ objs \in ItemLists
    /\ objs0 = objs
    /\ rowJ = [i \in 1..Len(objs) |-> first_other(i)]
    /\ v = [i \in 1..Len(objs) |-> <<>>]
    /\ applied = 0
    /\ calls = [p \in (1..Len(objs)) \X (1..Len(objs)) |-> 0]
    /\ trace = <<>>
    /\ pc = "pairs"
    /\ settings = <<>> /\ delta = 0
    /\ objects = <<>> /\ pending = {} /\ opArg = <<>>
    /\ StepIdle

pairsFrame == <<world, world0, linkQ, pointQ, settings, delta, links, points,
                despawned, sub, objs0, objects, pending, opArg>>

PairsMap(i) ==
    /\ pc = "pairs"
    /\ rowJ[i] <= Len(objs)
    /\ LET j == rowJ[i]
           m == call_map("collision", objs[i], objs[j])
       IN /\ v' = [v EXCEPT ![i] =
                      IF m = <<>> THEN @ ELSE Append(@, <<<<i, m[1]>>, <<j, m[2]>>>>)]
          /\ rowJ' = [rowJ EXCEPT ![i] = j + 1]
          /\ calls' = [calls EXCEPT ![<<i, j>>] = @ + 1]
    /\ UNCHANGED <<objs, applied, trace, pc, pairsFrame>>

PairsApply ==
    /\ pc = "pairs"
    /\ rows_collected(rowJ, Len(objs))
    /\ applied < Len(flat_map(v))
    /\ LET r == flat_map(v)[applied + 1]
       IN /\ objs' = ApplyPair(objs, r, "collision")
          /\ trace' = trace \o <<r[1], r[2]>>
    /\ applied' = applied + 1
    /\ UNCHANGED <<rowJ, v, calls, pc, pairsFrame>>

PairsReturn ==
    /\ pc = "pairs"
    /\ rows_collected(rowJ, Len(objs))
    /\ applied = Len(flat_map(v))
    /\ pc' = "done"
    /\ UNCHANGED <<objs, rowJ, v, applied, calls, trace, pairsFrame>>

PairsNext ==
    \/ \E i \in 1..Len(objs) : PairsMap(i)
    \/ PairsApply
    \/ PairsReturn

SpecPairs == PairsInit /\ [][PairsNext]_vars

(***************************************************************************)
(* The N-body gravity of the scalar path, one worker at a time, inside the *)
(* substep loop.  par_iter_mut hands particle i to some worker; the        *)
(* workers run in any order and each reads the clone `objects`.            *)
(*   objects   the clone taken at the start of the gravity stage           *)
(*   pending   the particles whose closure has not run yet                 *)
(*   objs0     objs at the start of the current gravity stage (history)    *)
(***************************************************************************)
MaxBodies == 3

BodyLists ==
    UNION {{extract([i \in 1..n |-> Particle(i, f[i])]) : f \in [1..n -> PosSet]} :
           n \in 0..MaxBodies}

\* (mutant) the clone is taken once, before the substep loop
snapshot_stale(current, previous) == previous

\* let objects = objs.clone(): taken inside the loop, from the current objs
snapshot(current, previous) == current

\* what follows the N-body term in a substep
rest_of_substep(o, st, dt) ==
    update_stage(
        collisions_stage(
            constraints_stage(bounds_stage(field_stage(o, st, dt), st), <<>>, <<>>),
            st),
        dt)

GravInit ==
    /\ objs \in BodyLists
    /\ objs0 = objs
    /\ objects = objs
    /\ pending = {}
    /\ settings \in {st \in SettingsSet :
                        /\ nbody_active(st) /\ ~st.use_simd /\ st.collisions
                        /\ st.bounds.kind = "None" /\ st.gravity.kind = "None"}
    /\ delta = Scale
    /\ pc = "clone" /\ sub = 0 /\ trace = <<>>
    /\ rowJ = <<>> /\ v = <<>> /\ applied = 0 /\ calls = <<>> /\ opArg = <<>>
    /\ world = <<>> /\ world0 = <<>> /\ linkQ = <<>> /\ pointQ = <<>>
    /\ links = <<>> /\ points = <<>> /\ despawned = {}

gravFrame == <<world, world0, linkQ, pointQ, settings, delta, links, points,
               despawned, trace, rowJ, v, applied, calls, opArg>>

GravClone ==
    /\ pc = "clone"
    /\ objects' = snapshot(objs, objects)
    /\ objs0' = objs
    /\ pending' = 1..Len(objs)
    /\ pc' = "workers"
    /\ UNCHANGED <<objs, sub, gravFrame>>

GravWorker(i) ==
    /\ pc = "workers"
    /\ i \in pending
    /\ objs' = [objs EXCEPT
                  ![i] = nbody_worker(objs[i], objects, settings, dt_of(settings, delta))]
    /\ pending' = pending \ {i}
    /\ UNCHANGED <<objects, objs0, pc, sub, gravFrame>>

GravJoin ==
    /\ pc = "workers"
    /\ pending = {}
    /\ pc' = "rest"
    /\ UNCHANGED <<objs, objects, objs0, pending, sub, gravFrame>>

GravRest ==
    /\ pc = "rest"
    /\ objs' = rest_of_substep(objs, settings, dt_of(settings, delta))
    /\ sub' = sub + 1
    /\ pc' = IF sub + 1 < settings.sub_steps THEN "clone" ELSE "done"
    /\ UNCHANGED <<objects, objs0, pending, gravFrame>>

GravNext ==
    \/ GravClone
    \/ \E i \in 1..Len(objs) : GravWorker(i)
    \/ GravJoin
    \/ GravRest

SpecGravity == GravInit /\ [][GravNext]_vars

(***************************************************************************)
(* Single operations on one particle.                                      *)
(*   opArg   the operation and its receiver                                *)
(*   objs0   the particle list before the operation (history)              *)
(***************************************************************************)
OpCoords == {0 - 1500, 0, 300, 1000, 2000}

\* the consecutive update_position calls on one particle
MaxCalls == 3

OpObjects ==
    {[pos |-> <<x, y>>, pos_old |-> VSub(<<x, y>>, vel), acceleration |-> acc,
      radius |-> 100, mass |-> 100] :
        x \in OpCoords, y \in {0, 400}, vel \in {ZERO, <<10, 0>>},
        acc \in {ZERO, <<0, 0 - 100>>}}

\* two particles at rest: apart, overlapping, and on the same spot
OpPairs ==
    {<<[pos |-> pa, pos_old |-> pa, acceleration |-> ZERO,
        radius |-> 100, mass |-> m[1]],
       [pos |-> pb, pos_old |-> pb, acceleration |-> ZERO,
        radius |-> 100, mass |-> m[2]]>> :
        pa \in {ZERO, <<300, 400>>},
        pb \in {ZERO, <<2000, 0>>, <<150, 0>>, <<360, 480>>},
        m \in {<<100, 100>>, <<100, 300>>, <<200, 100>>}}

\* the states update_position can be handed: finite, NaN, infinite and close
\* to the largest finite value
OpStates ==
    {[pos |-> p, pos_old |-> q, acceleration |-> acc,
      radius |-> 100, mass |-> 100] :
        p \in {ZERO, <<200, 100>>, <<NaN, 0>>, <<0, PInf>>, <<30000, 0>>},
        q \in {ZERO, <<190, 100>>, <<NaN, 0>>, <<0 - 30000, 0>>},
        acc \in {ZERO, <<0, 0 - 100>>, <<PInf, 0>>}}

OpArgs ==
    {[op |-> "point", con |-> PointConstraint(1, a, d)] :
        a \in {ZERO, <<300, 400>>}, d \in {500, 1000}}
    \cup {[op |-> "link", con |-> LinkConstraint(1, 2, d, 3000)] : d \in {500, 1000}}
    \cup {[op |-> "collide"]}
    \cup {[op |-> "towards", gravity |-> GravityTowards(a, 400)] :
             a \in {ZERO, <<300, 400>>}}
    \cup {[op |-> "update"]}
    \cup {[op |-> "bounds", bounds |-> b, radius |-> r] :
             b \in {BoundsCircle(1000),
                    BoundsRect(<<0 - 500, 0 - 500>>, <<500, 500>>)},
             r \in {100, 1000, 1200}}

OpInputs(arg) ==
    CASE arg.op \in {"point", "towards"} -> {<<o>> : o \in OpObjects}
      [] arg.op = "bounds" ->
            {<<[o EXCEPT !.radius = arg.radius]>> : o \in OpObjects}
      [] arg.op \in {"link", "collide"} -> OpPairs
      [] OTHER -> {<<o>> : o \in OpStates}

OpsInit ==
    /\ opArg \in OpArgs
    /\ objs \in OpInputs(opArg)
    /\ objs0 = objs
    /\ objects = objs
    /\ world = [i \in 1..Len(objs) |->
                  [current |-> objs[i].pos, old |-> objs[i].pos_old,
                   radius |-> objs[i].radius, mass |-> objs[i].mass]]
    /\ world0 = world
    /\ delta \in {Scale, Scale \div 2}
    /\ pc = "op" /\ sub = 0 /\ trace = <<>>
    /\ settings = <<>> /\ pending = {}
    /\ rowJ = <<>> /\ v = <<>> /\ applied = 0 /\ calls = <<>>
    /\ linkQ = <<>> /\ pointQ = <<>>
    /\ links = <<>> /\ points = <<>> /\ despawned = {}

opsFrame == <<world0, linkQ, pointQ, settings, delta, links, points,
              sub, trace, pending, rowJ, applied, calls, opArg>>

\* point.apply(&mut objs)
OpPoint ==
    /\ pc = "op" /\ opArg.op = "point"
    /\ objs0' = objs
    /\ objs' = PointConstraint_apply(opArg.con, objs)
    /\ pc' = "point"
    /\ UNCHANGED <<world, despawned, objects, v, opsFrame>>

\* link.apply(&mut objs)
OpLink ==
    /\ pc = "op" /\ opArg.op = "link"
    /\ objs0' = objs
    /\ objs' = LinkConstraint_apply(opArg.con, objs)
    /\ pc' = "link"
    /\ UNCHANGED <<world, despawned, objects, v, opsFrame>>

\* the collision sweep over two particles; v keeps what the map returned
OpCollide ==
    /\ pc = "op" /\ opArg.op = "collide"
    /\ objs0' = objs
    /\ v' = <<call_map("collision", objs[1], objs[2])>>
    /\ objs' = par_for_pairs(objs, "collision", "collision")
    /\ pc' = "collide"
    /\ UNCHANGED <<world, despawned, objects, opsFrame>>

\* obj.accelerate(settings.gravity.acceleration(obj.pos)) of main.rs
OpTowards ==
    /\ pc = "op" /\ opArg.op = "towards"
    /\ objs0' = objs
    /\ objs' = [i \in 1..Len(objs) |->
                  accelerate(objs[i],
                             Gravity_acceleration_main(opArg.gravity, objs[i].pos))]
    /\ pc' = "towards"
    /\ UNCHANGED <<world, despawned, objects, v, opsFrame>>

\* settings.bounds.update_position(obj)
OpBounds ==
    /\ pc = "op" /\ opArg.op = "bounds"
    /\ objs0' = objs
    /\ objs' = [i \in 1..Len(objs) |-> Bounds_update_position(opArg.bounds, objs[i])]
    /\ pc' = "bounds"
    /\ UNCHANGED <<world, despawned, objects, v, opsFrame>>

\* settings.bounds.update_position(obj) on its own result; objects keeps the
\* result of the first call
OpBoundsAgain ==
    /\ pc = "bounds"
    /\ objects' = objs
    /\ objs' = [i \in 1..Len(objs) |-> Bounds_update_position(opArg.bounds, objs[i])]
    /\ pc' = "bounds2"
    /\ UNCHANGED <<world, despawned, objs0, v, opsFrame>>

\* the integration that ends the substep, no other stage having moved the
\* particle; objects keeps the particles as they were handed to it
OpUpdate ==
    /\ \/ pc \in {"point", "link", "collide", "towards"}
       \/ pc = "op" /\ opArg.op = "update"
    /\ objects' = objs
    /\ objs' = update_stage(objs, delta)
    /\ pc' = "updated"
    /\ UNCHANGED <<world, despawned, objs0, v, opsFrame>>

\* the integration of a further substep in which no other stage is active
OpUpdateAgain ==
    /\ pc = "updated" /\ opArg.op = "update"
    /\ sub + 1 < MaxCalls
    /\ objects' = objs
    /\ objs' = update_stage(objs, delta)
    /\ sub' = sub + 1
    /\ UNCHANGED <<world, world0, linkQ, pointQ, settings, delta, links, points,
                   despawned, pc, trace, pending, rowJ, applied, calls, opArg,
                   objs0, v>>

\* the writeback that ends the step
OpInsert ==
    /\ pc = "updated"
    /\ world' = insert(world, objs)
    /\ despawned' = insert_despawn(world, objs)
    /\ pc' = "written"
    /\ UNCHANGED <<objs, objs0, objects, v, opsFrame>>

OpsNext ==
    \/ OpPoint \/ OpLink \/ OpCollide \/ OpTowards
    \/ OpBounds \/ OpBoundsAgain
    \/ OpUpdate \/ OpUpdateAgain \/ OpInsert

SpecOps == OpsInit /\ [][OpsNext]_vars

(***************************************************************************)
(* The use_simd substep with N-body gravity, one load, one wrap copy and   *)
(* one chunk at a time.  Offsets count from 0 as in the code; element t of *)
(* the model is offset t - 1.                                              *)
(*   applied   the loop variable of the loop that is running               *)
(*   pending   the chunks par_chunks_mut has not processed yet             *)
(*   objects   the arrays as the snapshot loads read them                  *)
(*   calls     the 4-wide accesses made: the offset they start at and the  *)
(*             number of elements the slice they go through holds          *)
(*             (history)                                                   *)
(***************************************************************************)
MaxCount == 5

\* the elements of chunk k of chunks_mut(NUM_ELEMS) over len elements
chunk_elems(len, k) == {t \in 1..len : (t - 1) \div NUM_ELEMS = k}

SimdInit ==
    /\ world \in {[i \in 1..n |-> Particle(i, <<300 * i, 0>>)] : n \in 0..MaxCount}
    /\ world0 = world
    /\ settings \in {s \in SettingsSet :
                        /\ s.use_simd /\ nbody_active(s) /\ ~s.collisions
                        /\ s.gravity.kind = "None" /\ s.bounds.kind = "None"}
    /\ delta = Scale
    /\ objs = simd_extract(world)
    /\ objects = objs /\ objs0 = objs
    /\ pc = "gravity" /\ sub = 0 /\ applied = 0
    /\ pending = {} /\ calls = {}
    /\ trace = <<>> /\ rowJ = <<>> /\ v = <<>> /\ opArg = <<>>
    /\ linkQ = <<>> /\ pointQ = <<>>
    /\ links = <<>> /\ points = <<>> /\ despawned = {}

simdFrame == <<world, world0, linkQ, pointQ, settings, delta, links, points,
               despawned, trace, rowJ, v, opArg, objs0>>

\* one iteration of `for i in 0..back_len` of wrap_back
SimdWrap ==
    /\ pc = "gravity"
    /\ LET c == Len(objs) - Len(world)
       IN /\ objs' = wrap_step(objs, c, applied)
          /\ applied' = IF applied + 1 < c THEN applied + 1 ELSE 0
          /\ pc' = IF applied + 1 < c THEN "gravity" ELSE "snapshot"
    /\ UNCHANGED <<objects, pending, calls, sub, simdFrame>>

\* one iteration of `for i in 0..objs.len()`: the loads at offset i
SimdLoad ==
    /\ pc = "snapshot" /\ applied < Len(world)
    /\ calls' = calls \cup {[op |-> "load", at |-> applied,
                             len |-> Len(objs) - applied]}
    /\ applied' = applied + 1
    /\ UNCHANGED <<objs, objects, pending, pc, sub, simdFrame>>

\* objs_clone is complete: par_chunks_mut(NUM_ELEMS) hands out the chunks
SimdFork ==
    /\ pc = "snapshot" /\ applied = Len(world)
    /\ objects' = objs
    /\ pending' = 0..(chunked(Len(world)) \div NUM_ELEMS - 1)
    /\ pc' = "nbody"
    /\ UNCHANGED <<objs, applied, calls, sub, simdFrame>>

\* the for_each closure on chunk k, on any worker
SimdChunk(k) ==
    /\ pc = "nbody" /\ k \in pending
    /\ objs' = [t \in 1..Len(objs) |->
                  IF t \in chunk_elems(Len(objs), k)
                  THEN [objs[t] EXCEPT !.acceleration =
                            simd_nbody_lane(t, objects, Len(world),
                                            settings.gravitational_constant)]
                  ELSE objs[t]]
    /\ calls' = calls \cup {[op |-> "nbody", at |-> NUM_ELEMS * k,
                             len |-> Cardinality(chunk_elems(Len(objs), k))]}
    /\ pending' = pending \ {k}
    /\ UNCHANGED <<objects, applied, pc, sub, simdFrame>>

\* every chunk is done: the update loop starts
SimdJoin ==
    /\ pc = "nbody" /\ pending = {}
    /\ pc' = "update" /\ applied' = 0
    /\ UNCHANGED <<objs, objects, pending, calls, sub, simdFrame>>

\* the update closure on the next chunk of chunks_mut(NUM_ELEMS)
SimdUpdate ==
    /\ pc = "update" /\ applied < chunked(Len(world)) \div NUM_ELEMS
    /\ objs' = [t \in 1..Len(objs) |->
                  IF t \in chunk_elems(Len(objs), applied)
                  THEN simd_update_lane(objs[t], dt_of(settings, delta))
                  ELSE objs[t]]
    /\ calls' = calls \cup {[op |-> "update", at |-> NUM_ELEMS * applied,
                             len |-> Cardinality(chunk_elems(Len(objs), applied))]}
    /\ applied' = applied + 1
    /\ UNCHANGED <<objects, pending, pc, sub, simdFrame>>

\* the end of one iteration of `for _ in 0..sub_steps`
SimdLoop ==
    /\ pc = "update" /\ applied = chunked(Len(world)) \div NUM_ELEMS
    /\ sub' = sub + 1
    /\ pc' = next_substep
    /\ applied' = 0
    /\ UNCHANGED <<objs, objects, pending, calls, simdFrame>>

SimdNext ==
    \/ SimdWrap \/ SimdLoad \/ SimdFork
    \/ \E k \in pending : SimdChunk(k)
    \/ SimdJoin \/ SimdUpdate \/ SimdLoop

SpecSimd == SimdInit /\ [][SimdNext]_vars

(***************************************************************************)
(* Properties                                                              *)
(***************************************************************************)
RECURSIVE Repeat(_, _)
Repeat(sq, n) == IF n = 0 THEN <<>> ELSE sq \o Repeat(sq, n - 1)

SubstepStages == <<"gravity", "bounds", "constraints", "collisions", "update">>

StepTrace(n) == <<"extract", "validate">> \o Repeat(SubstepStages, n) \o <<"insert">>

IsPrefix(a, b) == Len(a) <= Len(b) /\ a = SubSeq(b, 1, Len(a))

\* two floats agree up to the rounding of a few operations (1 %), or are the
\* same non-finite value
Close(a, b) ==
    \/ a = b
    \/ IsFinite(a) /\ IsFinite(b) /\ Abs(a - b) <= 2 + Abs(b) \div 100

VClose(a, b) == Close(a[1], b[1]) /\ Close(a[2], b[2])

\* C1: in the scalar path an invocation runs extract, then sub_steps times
\* gravity, bounds, constraints, collisions, update in this order with
\* dt = delta / sub_steps, then the writeback; nothing is written back
\* before the last substep has ended.
C1_ScalarOrder ==
    ~settings.use_simd =>
        /\ IsPrefix(trace, StepTrace(settings.sub_steps))
        /\ (pc = "done" => trace = StepTrace(settings.sub_steps)
                           /\ sub = settings.sub_steps)
        /\ (pc # "done" => world = world0)
        /\ dt_of(settings, delta) * settings.sub_steps \in
               (delta - settings.sub_steps)..(delta + settings.sub_steps)

C1_Witness ==
    /\ pc = "done" /\ ~settings.use_simd /\ settings.sub_steps = 2
    /\ Len(trace) = 13 /\ world # world0

\* helpers of the par_for_pairs properties
PairIsSome(i, j) == collision_map(objs0[i], objs0[j]) # <<>>

ApplyCount(k) == Cardinality({x \in 1..Len(trace) : trace[x][1] = k})

SomePairsOf(k) ==
    {p \in (1..Len(objs0)) \X (1..Len(objs0)) :
        p[1] < p[2] /\ k \in {p[1], p[2]} /\ PairIsSome(p[1], p[2])}

\* C2: par_for_pairs calls map exactly once on every pair (i, j) with i < j
\* and on no other pair, and calls apply once on item i and once on item j
\* for every pair where map returned Some and for no other pair.
C2_PairCompleteness ==
    /\ \A p \in DOMAIN calls : calls[p] <= (IF p[1] < p[2] THEN 1 ELSE 0)
    /\ pc = "done" =>
          /\ \A p \in DOMAIN calls : calls[p] = (IF p[1] < p[2] THEN 1 ELSE 0)
          /\ \A k \in 1..Len(objs) : ApplyCount(k) = Cardinality(SomePairsOf(k))

\* n = 5 and Some only for the pair of the second and fourth item (indices
\* 1 and 3 counted from 0)
C2_Witness ==
    /\ pc = "done" /\ Len(objs) = 5
    /\ {p \in (1..5) \X (1..5) : p[1] < p[2] /\ PairIsSome(p[1], p[2])} = {<<2, 4>>}
    /\ ApplyCount(2) = 1 /\ ApplyCount(4) = 1
    /\ ApplyCount(1) = 0 /\ ApplyCount(3) = 0 /\ ApplyCount(5) = 0

\* the pre-sweep position of item k plus, in pair order, every correction the
\* map yields for k on the pre-sweep items
ExpectedPos(k) ==
    LET ps == Pairs(Len(objs0))
        f[x \in 0..Len(ps)] ==
            IF x = 0 THEN objs0[k].pos
            ELSE LET m == collision_map(objs0[ps[x][1]], objs0[ps[x][2]])
                 IN IF m = <<>> THEN f[x - 1]
                    ELSE IF k = ps[x][1] THEN VAdd(f[x - 1], m[1])
                    ELSE IF k = ps[x][2] THEN VAdd(f[x - 1], m[2])
                    ELSE f[x - 1]
    IN f[Len(ps)]

\* C3: in a collision sweep no apply call happens before map has been
\* evaluated on all pairs, and each position after the sweep is the pre-sweep
\* position plus the sum of the corrections computed for it from the
\* pre-sweep positions.
C3_JacobiSweep ==
    /\ applied > 0 => \A i \in 1..Len(objs) : rowJ[i] > Len(objs)
    /\ pc = "done" => \A k \in 1..Len(objs) : objs[k].pos = ExpectedPos(k)

\* an item that takes part in two colliding pairs and ends where the two
\* corrections add up to
C3_Witness ==
    /\ pc = "done"
    /\ \E k \in 1..Len(objs) :
          /\ ApplyCount(k) >= 2
          /\ objs[k].pos # objs0[k].pos
          /\ \A p \in SomePairsOf(k) :
                LET m == collision_map(objs0[p[1]], objs0[p[2]])
                IN objs[k].pos # VAdd(objs0[k].pos, IF k = p[1] THEN m[1] ELSE m[2])

AppliedPair(x) == <<trace[2 * x - 1][1], trace[2 * x][1]>>

\* C4: in every interleaving of the map workers no item is written while a
\* row is unfinished, the apply calls come in ascending (i, j) order, and the
\* final items are those of the sequential definition.
C4_OrderIndependent ==
    /\ objs # objs0 => \A i \in 1..Len(objs) : rowJ[i] > Len(objs)
    /\ \A x, y \in 1..applied :
          x < y => \/ AppliedPair(x)[1] < AppliedPair(y)[1]
                   \/ /\ AppliedPair(x)[1] = AppliedPair(y)[1]
                      /\ AppliedPair(x)[2] < AppliedPair(y)[2]
    /\ pc = "done" => objs = par_for_pairs(objs0, "collision", "collision")

\* two rows have produced results and all of them have been applied
C4_Witness ==
    /\ pc = "done" /\ applied >= 2
    /\ AppliedPair(1)[1] # AppliedPair(applied)[1]
    /\ objs # objs0

\* C5: in every substep the N-body term of a particle is computed from the
\* positions and masses as they were at the start of that substep's gravity
\* stage, whichever workers have already run, and a worker changes its own
\* particle only.
C5_GravitySnapshot ==
    /\ pc = "workers" =>
          \A i \in 1..Len(objs) :
              objs[i] = IF i \in pending THEN objs0[i]
                        ELSE nbody_worker(objs0[i], objs0, settings,
                                          dt_of(settings, delta))
    /\ pc = "rest" => objs = nbody_stage(objs0, settings, dt_of(settings, delta))

\* the gravity stage of a second substep has run on particles that moved
C5_Witness ==
    /\ pc = "rest" /\ sub >= 1 /\ Len(objs) >= 2
    /\ objs # objs0
    /\ \E i \in 1..Len(objs) : ~VEq(objs[i].pos, objs[i].pos_old)

\* the written-back state and the discard signals of the scalar path
scalar_world(w, lq, pq, st, d) == insert(w, scalar_objs(w, lq, pq, st, d))

scalar_despawned(w, lq, pq, st, d) ==
    {<<"link", k>> : k \in {j \in 1..Len(lq) : ~link_valid(lq[j], extract(w), Len(w))}}
    \cup {<<"point", k>> : k \in {j \in 1..Len(pq) :
                                    ~PointConstraint_try_map(pq[j], Len(w))}}
    \cup insert_despawn(w, scalar_objs(w, lq, pq, st, d))

\* C6: the use_simd path writes back the same particle states (up to
\* rounding) and issues the same discard signals as the scalar path does on
\* the same input.
C6_SimdEqualsScalar ==
    pc = "done" /\ settings.use_simd =>
        LET st == [settings EXCEPT !.use_simd = FALSE]
            w == scalar_world(world0, linkQ, pointQ, st, delta)
        IN /\ \A i \in 1..Len(world) :
                  /\ VClose(world[i].current, w[i].current)
                  /\ VClose(world[i].old, w[i].old)
           /\ despawned = scalar_despawned(world0, linkQ, pointQ, st, delta)

\* C7: with use_simd set every substep still runs bounds, constraints and
\* collisions between gravity and the integration.
C7_SimdStages ==
    pc = "done" /\ settings.use_simd /\ Len(world0) > 0 =>
        trace = StepTrace(settings.sub_steps)

\* C8: after PointConstraint::apply the particle is at distance rest_length
\* of the anchor, wherever off the anchor it started.
C8_PointDistance ==
    pc = "point" /\ ~VEq(objs0[1].pos, opArg.con.point) =>
        Close(length(VSub(objs[1].pos, opArg.con.point)), opArg.con.dist)

\* C9: after PointConstraint::apply pos_old == pos and the acceleration is
\* zero, and the integration that follows leaves the position where the
\* constraint put it.
C9_PointPins ==
    /\ pc = "point" =>
          /\ VEq(objs[1].pos, objs[1].pos_old)
          /\ objs[1].acceleration = ZERO
    /\ pc = "updated" /\ opArg.op = "point" =>
          VEq(objs[1].pos, PointConstraint_apply(opArg.con, objs0)[1].pos)

\* C10: validation despawns a link between two existing particles exactly
\* when their distance exceeds snap_distance, and keeps and applies it
\* otherwise.
C10_LinkBreak ==
    pc \notin {"extract", "links"} =>
        \A k \in 1..Len(linkQ) :
            LET l == linkQ[k]
            IN l.a \in 1..Len(world0) /\ l.b \in 1..Len(world0) =>
                  LET far == SqLt(SqOf(l.snap),
                                  distance_squared(world0[l.a].current,
                                                   world0[l.b].current))
                  IN /\ (<<"link", k>> \in despawned) = far
                     /\ (\E x \in 1..Len(links) : links[x] = l) = ~far

\* the number of constraint stages run so far, and in how many of them the
\* k-th link / point constraint of the step was applied
ConstraintRuns == Cardinality({x \in 1..Len(trace) : trace[x] = "constraints"})

LinkApplied(k) ==
    IF \E x \in 1..Len(links) : links[x] = linkQ[k] THEN ConstraintRuns ELSE 0

PointApplied(k) ==
    IF \E x \in 1..Len(points) : points[x] = pointQ[k] THEN ConstraintRuns ELSE 0

Validated == pc \notin {"extract", "links", "points"}

\* C11: a link or point constraint naming a particle that is not in the
\* step's particle list is despawned and applied in no substep; a point
\* constraint whose particle is present is never despawned; and at the end of
\* the step every constraint has either been applied or been despawned,
\* never both and never neither.
C11_DanglingConstraints ==
    Validated =>
        /\ \A k \in 1..Len(linkQ) :
              ~LinkConstraint_try_map(linkQ[k], Len(world0)) =>
                  <<"link", k>> \in despawned /\ LinkApplied(k) = 0
        /\ \A k \in 1..Len(pointQ) :
              IF pointQ[k].a \in 1..Len(world0)
              THEN <<"point", k>> \notin despawned
              ELSE <<"point", k>> \in despawned /\ PointApplied(k) = 0
        /\ pc = "done" =>
              /\ \A k \in 1..Len(linkQ) :
                    (<<"link", k>> \in despawned) # (LinkApplied(k) > 0)
              /\ \A k \in 1..Len(pointQ) :
                    (<<"point", k>> \in despawned) # (PointApplied(k) > 0)

\* C12: the constraints are validated once, on the extracted particles and
\* before the first substep; from then on the applied set is fixed: no stage
\* adds, removes or reports a constraint, and every kept constraint is
\* applied in every substep of the step, wherever the substeps move its
\* particles.
C12_ValidatedOnce ==
    Validated =>
        /\ links = validate_links(linkQ, extract(world0), Len(world0))
        /\ points = validate_points(pointQ, Len(world0))
        /\ \A k \in 1..Len(linkQ) :
              (<<"link", k>> \in despawned) =
                  ~link_valid(linkQ[k], extract(world0), Len(world0))
        /\ \A k \in 1..Len(pointQ) :
              (<<"point", k>> \in despawned) =
                  ~PointConstraint_try_map(pointQ[k], Len(world0))
        /\ \A k \in 1..Len(linkQ) :
              link_valid(linkQ[k], extract(world0), Len(world0)) =>
                  LinkApplied(k) = (IF pc \in {"collisions", "update"}
                                    THEN sub + 1 ELSE sub)
        /\ \A k \in 1..Len(pointQ) :
              PointConstraint_try_map(pointQ[k], Len(world0)) =>
                  PointApplied(k) = (IF pc \in {"collisions", "update"}
                                     THEN sub + 1 ELSE sub)

\* the rounding a correction can carry, weighted by the two masses
MomentTolerance(a, b) == 3 * (a.mass + b.mass)

\* C13: for a pair resolved as a collision, with positive masses, the two
\* corrections of the collision map satisfy
\* mass_i * delta_pos_i + mass_j * delta_pos_j = 0 (up to rounding), so the
\* centre of mass of the pair stays where it was.
C13_CollisionMomentum ==
    opArg.op = "collide" /\ pc # "op" /\ v[1] # <<>> =>
        \A c \in 1..2 :
            /\ IsFinite(v[1][1][c]) /\ IsFinite(v[1][2][c])
            /\ Abs(objs0[1].mass * v[1][1][c] + objs0[2].mass * v[1][2][c])
                   <= MomentTolerance(objs0[1], objs0[2])

\* an overlapping pair of unequal masses has been pushed apart
C13_Witness ==
    /\ opArg.op = "collide" /\ pc = "collide" /\ v[1] # <<>>
    /\ objs0[1].mass # objs0[2].mass
    /\ ~VEq(objs0[1].pos, objs0[2].pos)
    /\ Abs(v[1][1][1]) + Abs(v[1][1][2]) > 10
    /\ objs[1].pos = VAdd(objs0[1].pos, v[1][1])
    /\ objs[2].pos = VAdd(objs0[2].pos, v[1][2])

\* C14: LinkConstraint::apply moves its two particles along the axis that
\* connects them, the one by b_m / (a_m + b_m) and the other by
\* a_m / (a_m + b_m) of (rest_length - distance), so that their distance is
\* rest_length afterwards (up to rounding); with rest_length 10, equal masses
\* and distance 20 each particle moves by exactly 5 toward the other.
C14_LinkRestores ==
    opArg.op = "link" /\ pc = "link" =>
        LET a0 == objs0[1]
            b0 == objs0[2]
            da == VSub(objs[1].pos, a0.pos)
            db == VSub(objs[2].pos, b0.pos)
            axis == VSub(a0.pos, b0.pos)
            d0 == length(axis)
            gap == Abs(opArg.con.dist - d0)
        IN /\ Close(length(VSub(objs[1].pos, objs[2].pos)), opArg.con.dist)
           /\ Close(length(da), RDiv(b0.mass * gap, a0.mass + b0.mass))
           /\ Close(length(db), RDiv(a0.mass * gap, a0.mass + b0.mass))
           /\ \A c \in 1..2 :
                 Abs(a0.mass * da[c] + b0.mass * db[c])
                     <= MomentTolerance(a0, b0)
           /\ Abs(da[1] * axis[2] - da[2] * axis[1])
                  <= 2 * (Abs(axis[1]) + Abs(axis[2]))
           /\ (/\ opArg.con.dist = 1000 /\ a0.mass = b0.mass
               /\ a0.pos = ZERO /\ b0.pos = <<2000, 0>>)
                  => objs[1].pos = <<500, 0>> /\ objs[2].pos = <<1500, 0>>

\* rest_length 10 between particles of unequal mass that are 5 apart, not on
\* a coordinate axis: both have moved, away from each other
C14_Witness ==
    /\ opArg.op = "link" /\ pc = "link" /\ opArg.con.dist = 1000
    /\ objs0[1].mass # objs0[2].mass
    /\ objs0[1].pos = <<300, 400>> /\ objs0[2].pos = ZERO
    /\ objs[1].pos # objs0[1].pos /\ objs[2].pos # objs0[2].pos
    /\ objs[1].pos[1] > 300 /\ objs[2].pos[1] < 0

\* C15: after the integration that ends a substep pos and pos_old of every
\* particle are finite, whatever the particle's position, previous position
\* and accumulated acceleration were before it.
C15_FiniteAfterUpdate ==
    pc = "updated" =>
        \A i \in 1..Len(objs) :
            VIsFinite(objs[i].pos) /\ VIsFinite(objs[i].pos_old)

\* C16: update_position on a particle whose pos is not finite replaces pos
\* by pos_old when pos_old is finite and by the origin otherwise, and takes
\* zero as the velocity of the step: pos_old becomes the substituted
\* position and pos the substituted position plus acceleration * dt^2.
C16_Recovery ==
    pc = "updated" =>
        \A i \in 1..Len(objs) :
            ~VIsFinite(objects[i].pos) =>
                LET s == IF VIsFinite(objects[i].pos_old)
                         THEN objects[i].pos_old ELSE ZERO
                IN /\ objs[i].pos_old = s
                   /\ VClose(objs[i].pos,
                             VAdd(s, VScale(objects[i].acceleration,
                                            FMul(delta, delta))))
                   /\ objs[i].acceleration = ZERO

\* a NaN position with a finite previous position away from the origin and
\* a pending acceleration, integrated with dt = 0.5
C16_Witness ==
    /\ pc = "updated" /\ opArg.op = "update" /\ delta = Scale \div 2
    /\ VIsNaN(objects[1].pos)
    /\ VIsFinite(objects[1].pos_old) /\ objects[1].pos_old # ZERO
    /\ objects[1].acceleration = <<0, 0 - 100>>
    /\ objs[1].pos_old = objects[1].pos_old
    /\ objs[1].pos = VAdd(objects[1].pos_old, <<0, 0 - 25>>)

\* C17: at writeback a particle is reported for deletion exactly when its
\* final position is not finite (a NaN or an infinite component).
C17_NonFiniteReported ==
    pc = "written" =>
        \A i \in 1..Len(objs) :
            (<<"obj", i>> \in despawned) = ~VIsFinite(objs[i].pos)

\* C18: a particle whose position was not finite when update_position was
\* called, and was recovered by its fallback, is reported for deletion at
\* the end of the step.
C18_RecoveredFlagged ==
    pc = "written" =>
        \A i \in 1..Len(objs) :
            ~VIsFinite(objects[i].pos) => <<"obj", i>> \in despawned

\* C19: at writeback a particle whose final pos or pos_old differs from the
\* pos / pos_old it was extracted with is written back with its final
\* values, so a particle that is not written back has not changed.
C19_NoChangeLost ==
    pc = "done" =>
        \A i \in 1..Len(world0) :
            (objs[i].pos # world0[i].current \/ objs[i].pos_old # world0[i].old) =>
                world[i].current = objs[i].pos /\ world[i].old = objs[i].pos_old

\* C20: zero separation yields finite results in every stage: a link whose
\* two particles coincide, a colliding pair on the same spot, a
\* point-constrained particle on its anchor and a particle on the point of
\* point-source gravity all leave finite positions and accelerations.
C20_ZeroSeparation ==
    /\ pc = "link" /\ VEq(objs0[1].pos, objs0[2].pos) =>
          VIsFinite(objs[1].pos) /\ VIsFinite(objs[2].pos)
    /\ pc = "collide" /\ VEq(objs0[1].pos, objs0[2].pos) =>
          VIsFinite(objs[1].pos) /\ VIsFinite(objs[2].pos)
    /\ pc = "point" /\ VEq(objs0[1].pos, opArg.con.point) =>
          VIsFinite(objs[1].pos) /\ VIsFinite(objs[1].pos_old)
    /\ pc = "towards" /\ VEq(objs0[1].pos, opArg.gravity.point) =>
          VIsFinite(objs[1].acceleration)

\* the particles of the step: the vector path keeps NUM_ELEMS - 1 padding
\* elements behind them
Real == 1..Len(world)

Coincide(a, b) == VIsFinite(a.pos) /\ a.pos = b.pos

Verlet(o, dt) ==
    LET a == IF settings.use_simd THEN VScale(o.acceleration, FMul(dt, dt))
             ELSE VScale(VScale(o.acceleration, dt), dt)
    IN VAdd(o.pos, VAdd(VSub(o.pos, o.pos_old), a))

\* C22: the integration leaves every acceleration zero and, for a particle
\* whose pos was finite, pos_old equal to the pos before it and pos equal to
\* pos + (pos - pos_old) + acceleration * dt^2; hence every acceleration is
\* zero at the start of every substep.
C22_UpdatePosition ==
    /\ [](pc = "gravity" => \A i \in Real : objs[i].acceleration = ZERO)
    /\ [][(pc = "update" /\ pc' # "update")
          => \A i \in Real :
                /\ objs'[i].acceleration = ZERO
                /\ VIsFinite(objs[i].pos) =>
                      /\ objs'[i].pos_old = objs[i].pos
                      /\ VClose(objs'[i].pos,
                                Verlet(objs[i], dt_of(settings, delta)))]_vars

\* the second substep starts after an integration that moved a particle
\* under gravity
C22_Witness ==
    /\ pc = "gravity" /\ sub = 1 /\ ~settings.use_simd
    /\ settings.gravity.kind = "Dir"
    /\ Len(world) = 2
    /\ objs[1].acceleration = ZERO
    /\ VIsFinite(objs[1].pos) /\ objs[1].pos # objs[1].pos_old

\* C23: with zero acceleration and a finite state, any number of consecutive
\* update_position calls leaves pos - pos_old what it was before the first.
C23_UniformMotion ==
    (/\ pc = "updated" /\ opArg.op = "update"
     /\ VIsFinite(objs0[1].pos) /\ VIsFinite(objs0[1].pos_old)
     /\ objs0[1].acceleration = ZERO)
    => VSub(objs[1].pos, objs[1].pos_old) = VSub(objs0[1].pos, objs0[1].pos_old)

\* |pos| <= r - radius, resp. pos within [min + radius, max - radius]
InsideBounds(b, o) ==
    IF b.kind = "Circle" THEN ~FGt(length(o.pos), FSub(b.r, o.radius))
    ELSE \A k \in 1..2 :
            /\ ~FGt(FAdd(b.min[k], o.radius), o.pos[k])
            /\ ~FGt(o.pos[k], FSub(b.max[k], o.radius))

\* on the boundary: at distance r - radius of the centre, resp. a coordinate
\* on a side of the rectangle shrunk by the radius and the other on a side
\* or between the two
OnBoundary(b, o) ==
    IF b.kind = "Circle" THEN Close(length(o.pos), FSub(b.r, o.radius))
    ELSE LET lo == VAdd(b.min, <<o.radius, o.radius>>)
             hi == VSub(b.max, <<o.radius, o.radius>>)
         IN /\ \E k \in 1..2 : o.pos[k] \in {lo[k], hi[k]}
            /\ \A k \in 1..2 :
                  \/ o.pos[k] \in {lo[k], hi[k]}
                  \/ ~FGt(lo[k], o.pos[k]) /\ ~FGt(o.pos[k], hi[k])

\* C24: Bounds::update_position leaves the pos of a particle inside a Circle
\* or Rect bound unchanged, puts a particle outside onto the boundary, and
\* applied twice gives the pos it gives applied once, for every radius, a
\* radius larger than the bound included.
C24_BoundsIdempotent ==
    /\ pc = "bounds" =>
          IF InsideBounds(opArg.bounds, objs0[1])
          THEN objs[1].pos = objs0[1].pos
          ELSE OnBoundary(opArg.bounds, objs[1])
    /\ pc = "bounds2" => VClose(objs[1].pos, objects[1].pos)

\* the N-body term and the field term of particle i, where active
NBodyTerm(i) ==
    nbody_sum(objs[i], SubSeq(objs, 1, Len(world)), settings.gravitational_constant)

FieldTerm(i) == Gravity_acceleration(settings.gravity, objs[i].pos)

FieldActive == settings.gravity.kind # "None"

\* C25: with gravity_set_velocity set every active gravity term is applied
\* through set_velocity (pos_old = pos - v * dt, the acceleration untouched);
\* with it clear every active term is added to the acceleration and pos_old
\* is untouched; in the scalar and in the vector path.
C25_GravityMode ==
    [][(pc = "gravity" /\ pc' # "gravity")
       => \A i \in Real :
            LET dt == dt_of(settings, delta)
                n == IF nbody_active(settings) THEN NBodyTerm(i) ELSE ZERO
                f == IF FieldActive THEN FieldTerm(i) ELSE ZERO
            IN /\ objs'[i].pos = objs[i].pos
               /\ IF settings.gravity_set_velocity
                  THEN /\ objs'[i].acceleration = objs[i].acceleration
                       /\ \/ FieldActive
                             /\ VClose(objs'[i].pos_old,
                                       VSub(objs[i].pos, VScale(f, dt)))
                          \/ nbody_active(settings)
                             /\ VClose(objs'[i].pos_old,
                                       VSub(objs[i].pos, VScale(n, dt)))
                          \/ ~FieldActive /\ ~nbody_active(settings)
                             /\ objs'[i].pos_old = objs[i].pos_old
                  ELSE /\ objs'[i].pos_old = objs[i].pos_old
                       /\ VClose(objs'[i].acceleration,
                                 VAdd(VAdd(objs[i].acceleration, n), f))]_vars

\* C26: for every n >= 0 every 4-wide load and store of the vector path
\* stays inside the n + 3 element arrays, every processed chunk has exactly
\* 4 elements, and after wrap_back the padding element at offset n + k
\* equals element k mod n.
C26_SimdInRange ==
    /\ Len(objs) = Len(world) + NUM_ELEMS - 1
    /\ \A a \in calls :
          /\ a.at + NUM_ELEMS <= Len(objs)
          /\ a.op # "load" => a.len = NUM_ELEMS
    /\ pc = "snapshot" /\ Len(world) >= 1 =>
          \A k \in 0..(NUM_ELEMS - 2) :
              objs[Len(world) + k + 1] = objs[(k % Len(world)) + 1]

\* five particles: the second chunk, which ends at the last padding element,
\* has been updated
C26_Witness ==
    /\ Len(world) = 5 /\ pc = "update" /\ applied = 2
    /\ [op |-> "update", at |-> 4, len |-> 4] \in calls
    /\ [op |-> "load", at |-> 4, len |-> 4] \in calls

Finite(p) == VIsFinite(p.current) /\ VIsFinite(p.old)

\* C27: for every input one invocation of physics_system runs to completion
\* after exactly sub_steps substeps (every stage it is in is one that has a
\* next step, no index is out of range), and every entity ends with a finite
\* position or is despawned.
C27_Terminates ==
    /\ pc \in IF settings.use_simd
              THEN {"extract", "links", "points", "gravity", "update", "insert",
                    "done"}
              ELSE {"extract", "links", "points", "gravity", "bounds",
                    "constraints", "collisions", "update", "insert", "done"}
    /\ pc \in {"gravity", "bounds", "constraints", "collisions", "update"} =>
          sub < settings.sub_steps
    /\ pc \in {"insert", "done"} => sub = settings.sub_steps
    /\ Len(objs) \in {0, Len(world), Len(world) + NUM_ELEMS - 1}
    /\ \A k \in 1..Len(links) :
          links[k].a \in 1..Len(world) /\ links[k].b \in 1..Len(world)
    /\ \A k \in 1..Len(points) : points[k].a \in 1..Len(world)
    /\ pc = "done" =>
          \A i \in 1..Len(world) : Finite(world[i]) \/ <<"obj", i>> \in despawned

\* C28: on the scalar path with gravity_set_velocity set and both N-body and
\* field gravity active, the field term's set_velocity runs after the N-body
\* one and overwrites it: after the gravity stage pos - pos_old is
\* field(pos) * dt and the stage has done what the field term alone does.
C28_FieldOverwrites ==
    [][(/\ pc = "gravity" /\ pc' # "gravity" /\ ~settings.use_simd
        /\ settings.gravity_set_velocity
        /\ nbody_active(settings) /\ FieldActive)
       => /\ \A i \in Real :
                VClose(VSub(objs'[i].pos, objs'[i].pos_old),
                       VScale(FieldTerm(i), dt_of(settings, delta)))
          /\ objs' = field_stage(objs, settings, dt_of(settings, delta))]_vars

\* two particles apart, which attract each other, have passed the scalar
\* gravity stage in velocity mode under a field and N-body gravity
C28_Witness ==
    /\ pc = "bounds" /\ sub = 0 /\ ~settings.use_simd
    /\ settings.gravity_set_velocity
    /\ nbody_active(settings) /\ FieldActive
    /\ Len(world) = 2 /\ world[1].current # world[2].current
    /\ nbody_term(objs[1], objs[2], settings.gravitational_constant) # ZERO
    /\ VSub(objs[1].pos, objs[1].pos_old) =
          VScale(FieldTerm(1), dt_of(settings, delta))
    /\ objs[1].pos_old # objs[1].pos

\* the sum of the terms of the sources 0 .. n - 1, each taken once
EachSourceOnce(t) ==
    LET f[s \in 0..Len(world)] ==
            IF s = 0 THEN objects[t].acceleration
            ELSE VAdd(f[s - 1],
                      simd_nbody_term(objects[t].pos, objects[s],
                                      settings.gravitational_constant))
    IN f[Len(world)]

\* C29: in the vector N-body gravity, for every n >= 1 and every real
\* element t < n, the lane-shifted loop over the wrapped snapshot combines
\* into the acceleration of t each source 0 .. n - 1 exactly once: the
\* elements lane (t mod 4) reads are the n particles, each once, and the
\* acceleration of t is its old value plus the sum of their terms.
C29_LaneSources ==
    pc = "nbody" =>
        \A t \in Real :
            /\ \A s \in Real :
                  Cardinality({i \in 1..Len(world) :
                      objects[i + ((t - 1) % NUM_ELEMS)] = objects[s]}) = 1
            /\ (t - 1) \div NUM_ELEMS \notin pending =>
                  objs[t].acceleration = EachSourceOnce(t)

\* five particles: the first chunk is done, and its lane 3 has read the
\* three wrapped elements
C29_Witness ==
    /\ pc = "nbody" /\ Len(world) = 5 /\ pending = {1}
    /\ objs[4].acceleration # ZERO
    /\ objs[4].acceleration = EachSourceOnce(4)

\* particle i keeps the named fields over the step
Keeps(i, fields) == \A f \in fields : objs'[i][f] = objs[i][f]

\* C30: across a step the number and order of the particles and every
\* radius and mass stay what they are; the bounds stage, LinkConstraint::apply
\* and the collision stage change only pos; gravity in acceleration mode
\* changes only the acceleration; with collisions disabled the collision
\* stage changes nothing.
C30_FrameEffects ==
    /\ [](pc \notin {"extract", "done"} =>
            /\ Len(objs) >= Len(world)
            /\ \A i \in Real : /\ objs[i].radius = world0[i].radius
                               /\ objs[i].mass = world0[i].mass)
    /\ [](Len(world) = Len(world0) /\
          \A i \in Real : world[i].radius = world0[i].radius
                          /\ world[i].mass = world0[i].mass)
    /\ [][(pc # "extract" /\ pc' # pc)
          => /\ Len(objs') = Len(objs)
             /\ \A i \in Real :
                  /\ Keeps(i, {"radius", "mass"})
                  /\ pc = "bounds" => Keeps(i, {"pos_old", "acceleration"})
                  /\ pc = "constraints" /\ points = <<>> =>
                        Keeps(i, {"pos_old", "acceleration"})
                  /\ pc = "collisions" => Keeps(i, {"pos_old", "acceleration"})
                  /\ pc = "collisions" /\ ~settings.collisions =>
                        Keeps(i, {"pos"})
                  /\ pc = "gravity" /\ ~settings.gravity_set_velocity =>
                        Keeps(i, {"pos", "pos_old"})]_vars

\* the bounds stage has moved a moving particle back into the circle and a
\* link and the collision stage have then moved it again
C30_Witness ==
    /\ pc = "update" /\ sub = 0 /\ ~settings.use_simd
    /\ settings.bounds.kind = "Circle" /\ settings.collisions
    /\ Len(links) = 1 /\ points = <<>>
    /\ settings.gravity.kind = "None" /\ ~nbody_active(settings)
    /\ objs[2].pos # world0[2].current
    /\ objs[2].pos_old = world0[2].old
    /\ objs[2].pos_old # world0[2].current

====
